---- MODULE Spec2Model ----
(***************************************************************************)
(* Model of RS_MiTienda (src/main.py, src/models.py): a FastAPI marketplace *)
(* with an in-memory session dictionary, three SQLAlchemy tables (users,    *)
(* products, ratings) and an image directory (static/images).               *)
(*                                                                          *)
(* Every HTTP request is a slot of req.  A request takes one step per       *)
(* access to a shared resource (the sessions dict, the database, the image  *)
(* directory); what lies between two accesses is local to the request and   *)
(* is folded into the step that follows it.  last is the request that the   *)
(* step just taken has answered, with its response.                         *)
(*                                                                          *)
(* Spec interleaves the steps of NumReqs requests freely (sync handlers run *)
(* in the thread pool).  The specifications that are enumerated restrict    *)
(* which requests overlap: SeqSpec handles every request alone, AuthSpec    *)
(* and SeqAuthSpec handle the session requests (concurrently, alone), and   *)
(* ShopSpec lets rate_product and delete_product requests overlap.          *)
(***************************************************************************)
EXTENDS Integers, FiniteSets, Sequences, TLC

\* ---------------------------------------------------------------- bounds
NumReqs == 2
MaxProducts == 1
MaxTokens == 2
MaxImages == 2
\* products of the catalogs that read_products is applied to
NumListed == 3

Reqs == 1..NumReqs

\* ---------------------------------------------------------------- inputs
Usernames == {"ana", "beto"}
Emails == {"ana@x", "beto@x"}
Passwords == {"pw1", "pw2"}
\* the password every registration submits (login_user tries every password)
RegisterPassword == "pw1"
\* the submitted name / description / price / stock of add_product and edit_product
Forms ==
  { [name |-> "n1", description |-> "d1", price |-> 10, stock |-> 5],
    [name |-> "n2", description |-> "d2", price |-> -1, stock |-> -2] }
NoForm == [name |-> "", description |-> "", price |-> 0, stock |-> 0]

\* cookie values: no cookie, a value the server never issued, or an issued token
NoCookie == 0
Forged == -1
\* current_user = None, product = None
None == 0

\* ---------------------------------------------------------------- responses
Redirect(url) == <<302, url>>
Template(page) == <<200, page>>
HTTPException(code) == <<code, "detail">>
\* an exception no handler catches: the server answers 500
Unhandled(exc) == <<500, exc>>

VARIABLES
  sessions,   \* main.py:30  token -> user id
  users,      \* models.py:5   rows of table users
  products,   \* models.py:17  rows of table products
  ratings,    \* models.py:32  rows of table ratings
  files,      \* file names present in static/images
  tokens,     \* number of session tokens drawn from uuid.uuid4() so far
  images,     \* number of image file names drawn from uuid.uuid4() so far
  req,        \* the requests: position, inputs, locals, response
  last,       \* history: the request answered by the step just taken (NoRequest: none)
  issuedTo,   \* history: token -> user it was issued to by register_user / login_user
  revoked     \* history: tokens carried by a completed logout

vars == <<sessions, users, products, ratings, files, tokens, images, req, last, issuedTo, revoked>>

\* ---------------------------------------------------------------- rows
\* models.py:5-12 (whatsapp is stored and never read by a handler: left out)
UserRow(id, username, email, hashed_password) ==
  [id |-> id, username |-> username, email |-> email, hashed_password |-> hashed_password]

\* a product row whose owner is taken from the wrong argument
ProductRow_OwnerMixedUp(id, form, image, owner_id) ==
  [id |-> id, name |-> form.name, description |-> form.description, price |-> form.price,
   stock |-> form.stock, image |-> image, owner_id |-> id]

\* models.py:17-26
ProductRow(id, form, image, owner_id) ==
  [id |-> id, name |-> form.name, description |-> form.description, price |-> form.price,
   stock |-> form.stock, image |-> image, owner_id |-> owner_id]
NoProduct == ProductRow(None, NoForm, None, None)

\* a rating row with its two references exchanged
RatingRow_Swapped(id, user_id, product_id) == [id |-> id, user_id |-> product_id, product_id |-> user_id]

\* models.py:32-37
RatingRow(id, user_id, product_id) == [id |-> id, user_id |-> user_id, product_id |-> product_id]

Max(S) == IF S = {} THEN 0 ELSE CHOOSE m \in S : \A x \in S : x <= m
\* an Integer primary key left out of the INSERT: the table's largest id plus one
NextId(table) == Max({row.id : row \in table}) + 1

\* passlib bcrypt: hash / verify (the salt is not modelled)
Hash(password) == <<"bcrypt", password>>
\* a verification that accepts every password
Verify_Always(password, hashed) == TRUE
Verify(password, hashed) == hashed[1] = "bcrypt" /\ hashed[2] = password

\* db.query(models.User).filter(models.User.id == user_id).first()
UserById(user_id) ==
  IF \E u \in users : u.id = user_id THEN (CHOOSE u \in users : u.id = user_id).id ELSE None

\* db.query(models.Product).filter(models.Product.id == product_id).first()
ProductById(product_id) ==
  IF \E p \in products : p.id = product_id
  THEN CHOOSE p \in products : p.id = product_id ELSE NoProduct

\* the ownership query without its filter on the owner
OwnedProduct_AnyOwner(product_id, user_id) ==
  IF \E p \in products : p.id = product_id
  THEN CHOOSE p \in products : p.id = product_id ELSE NoProduct

\* db.query(models.Product).filter(Product.id == product_id, Product.owner_id == current_user.id).first()
OwnedProduct(product_id, user_id) ==
  IF \E p \in products : p.id = product_id /\ p.owner_id = user_id
  THEN CHOOSE p \in products : p.id = product_id /\ p.owner_id = user_id ELSE NoProduct

\* the pre-check without its filter on the user
ExistingRating_AnyUser(user_id, product_id) == \E x \in ratings : x.product_id = product_id

\* db.query(models.Rating).filter(Rating.user_id == ..., Rating.product_id == ...).first()
ExistingRating(user_id, product_id) ==
  \E x \in ratings : x.user_id = user_id /\ x.product_id = product_id

\* len(product.ratings)
RatingCount(product_id) == Cardinality({x \in ratings : x.product_id = product_id})

\* ---------------------------------------------------------------- requests
Idle ==
  [pc |-> "idle", op |-> "none", cookie |-> NoCookie, pid |-> None,
   username |-> "", email |-> "", password |-> "", form |-> NoForm, image |-> FALSE,
   current_user |-> None, product |-> NoProduct, new_image |-> None, response |-> <<0, "">>, set_cookie |-> NoCookie,
   listing |-> << >>]

Cookies == {NoCookie, Forged} \cup (1..tokens)
ProductIds == 1..MaxProducts

InFlight(r) == req[r].pc # "idle"
Free(r) == ~InFlight(r)
\* no other request is being handled
Solo(r) == \A s \in Reqs \ {r} : Free(s)

\* what is kept of an answered request (pc: the step that answered it)
Answered(rec, response) ==
  [op |-> rec.op, pc |-> rec.pc, cookie |-> rec.cookie, pid |-> rec.pid, username |-> rec.username,
   current_user |-> rec.current_user, set_cookie |-> rec.set_cookie, new_image |-> rec.new_image,
   listing |-> rec.listing,
   response |-> response]
NoRequest == Answered(Idle, <<0, "">>)

\* a request arrives in slot r (the slots are interchangeable: the lowest free one is taken)
Arrive(r, rec) ==
  /\ Free(r)
  /\ \A s \in Reqs : s < r => InFlight(s)
  /\ req' = [req EXCEPT ![r] = rec]
  /\ last' = NoRequest
  /\ UNCHANGED <<sessions, users, products, ratings, files, tokens, images, issuedTo, revoked>>

\* the request moves on to its next access
Goto(r, rec) == req' = [req EXCEPT ![r] = rec] /\ last' = NoRequest
\* the request ends with a response
Respond(r, rec, response) ==
  /\ req' = [req EXCEPT ![r] = Idle]
  /\ last' = Answered(rec, response)

Init ==
  /\ sessions = << >>
  /\ users = {}
  /\ products = {}
  /\ ratings = {}
  /\ files = {}
  /\ tokens = 0
  /\ images = 0
  /\ req = [r \in Reqs |-> Idle]
  /\ last = NoRequest
  /\ issuedTo = << >>
  /\ revoked = {}

\* ---------------------------------------------------------------- get_current_user
\* main.py:32-37 as a function of the cookie and the state: the user the cookie resolves to
CurrentUser(session_token) ==
  IF session_token # NoCookie /\ session_token \in DOMAIN sessions
  THEN UserById(sessions[session_token]) ELSE None

\* main.py:33  `session_token and session_token in sessions`.  The handlers never read
\* the cookie again: the request drops it once current_user is known.
get_current_user_test(r) ==
  /\ req[r].pc = "get_current_user"
  /\ IF req[r].cookie # NoCookie /\ req[r].cookie \in DOMAIN sessions
     THEN Goto(r, [req[r] EXCEPT !.pc = "get_current_user_read"])
     ELSE Goto(r, [req[r] EXCEPT !.pc = req[r].op, !.current_user = None, !.cookie = NoCookie])
  /\ UNCHANGED <<sessions, users, products, ratings, files, tokens, images, issuedTo, revoked>>

\* main.py:34-36  `sessions[session_token]`, then the User row of that id.  Rows of users
\* are never changed or deleted, so the query is folded into the step of the read.
get_current_user_read(r) ==
  /\ req[r].pc = "get_current_user_read"
  /\ IF req[r].cookie \in DOMAIN sessions
     THEN Goto(r, [req[r] EXCEPT !.pc = req[r].op, !.cookie = NoCookie,
                                 !.current_user = CurrentUser(req[r].cookie)])
     ELSE Respond(r, req[r], Unhandled("KeyError"))
  /\ UNCHANGED <<sessions, users, products, ratings, files, tokens, images, issuedTo, revoked>>

\* ---------------------------------------------------------------- rate_product
request_rate_product(r) ==
  \E c \in Cookies, id \in ProductIds :
    Arrive(r, [Idle EXCEPT !.pc = "get_current_user", !.op = "rate_product", !.cookie = c, !.pid = id])

\* main.py:286-292
rate_product(r) ==
  /\ req[r].pc = "rate_product"
  /\ IF req[r].current_user = None THEN Respond(r, req[r], HTTPException(401))
     ELSE IF ProductById(req[r].pid) = NoProduct THEN Respond(r, req[r], HTTPException(404))
     ELSE Goto(r, [req[r] EXCEPT !.pc = "rate_product_existing"])
  /\ UNCHANGED <<sessions, users, products, ratings, files, tokens, images, issuedTo, revoked>>

\* main.py:294-300
rate_product_existing(r) ==
  /\ req[r].pc = "rate_product_existing"
  /\ IF ExistingRating(req[r].current_user, req[r].pid)
     THEN Respond(r, req[r], HTTPException(400))
     ELSE Goto(r, [req[r] EXCEPT !.pc = "rate_product_commit"])
  /\ UNCHANGED <<sessions, users, products, ratings, files, tokens, images, issuedTo, revoked>>

\* the ratings table without its UniqueConstraint
RatingInsertAllowed_Unconstrained(user_id, product_id) == TRUE

\* models.py:42  UniqueConstraint('user_id', 'product_id'): does the INSERT pass it?
RatingInsertAllowed(user_id, product_id) ==
  ~\E x \in ratings : x.user_id = user_id /\ x.product_id = product_id

\* main.py:302-307  db.add(rating); db.commit(); db.refresh(rating).  Whether the engine
\* checks ratings.product_id against products (models.py:37) is set in database.py, which
\* is not part of the sources: both outcomes are modelled when the product is gone.
rate_product_commit(r) ==
  /\ req[r].pc = "rate_product_commit"
  /\ \E foreign_keys \in BOOLEAN :
       IF /\ RatingInsertAllowed(req[r].current_user, req[r].pid)
          /\ (foreign_keys => ProductById(req[r].pid) # NoProduct)
       THEN /\ ratings' = ratings \cup {RatingRow(NextId(ratings), req[r].current_user, req[r].pid)}
            /\ Respond(r, req[r], Redirect("/product"))
       ELSE /\ ratings' = ratings
            /\ Respond(r, req[r], Unhandled("IntegrityError"))
  /\ UNCHANGED <<sessions, users, products, files, tokens, images, issuedTo, revoked>>

\* ---------------------------------------------------------------- register_user
\* requests that will draw a session token / an image name / insert a product
PendingTokens == Cardinality({r \in Reqs : InFlight(r) /\ req[r].op \in {"register_user", "login_user"}})
PendingImages == Cardinality({r \in Reqs : InFlight(r) /\ req[r].image})
PendingProducts == Cardinality({r \in Reqs : InFlight(r) /\ req[r].op = "add_product"})

request_register_user(r) ==
  /\ tokens + PendingTokens < MaxTokens
  /\ \E u \in Usernames, e \in Emails :
       Arrive(r, [Idle EXCEPT !.pc = "register_user", !.op = "register_user",
                              !.username = u, !.email = e, !.password = RegisterPassword])

\* the existing-user query without its test of the email
ExistingUser_UsernameOnly(username, email) == \E u \in users : u.username = username

\* main.py:51-53  filter((User.username == username) | (User.email == email)).first()
ExistingUser(username, email) == \E u \in users : u.username = username \/ u.email = email

\* main.py:51-55
register_user(r) ==
  /\ req[r].pc = "register_user"
  /\ IF ExistingUser(req[r].username, req[r].email)
     THEN Respond(r, req[r], Template("register.html"))
     ELSE Goto(r, [req[r] EXCEPT !.pc = "register_user_commit"])
  /\ UNCHANGED <<sessions, users, products, ratings, files, tokens, images, issuedTo, revoked>>

\* the users table without unique=True on email
UserInsertAllowed_EmailNotUnique(username, email) == ~\E u \in users : u.username = username

\* models.py:9-10  unique=True on username and on email: does the INSERT pass them?
UserInsertAllowed(username, email) ==
  /\ ~\E u \in users : u.username = username
  /\ ~\E u \in users : u.email = email

\* a login that replaces the user's sessions instead of adding one
SessionCreate_Replacing(token, user_id) ==
  [t \in {x \in DOMAIN sessions : sessions[x] # user_id} \cup {token} |->
     IF t = token THEN user_id ELSE sessions[t]]

\* sessions[session_token] = user.id with session_token = str(uuid.uuid4())
SessionCreate(token, user_id) ==
  [t \in DOMAIN sessions \cup {token} |-> IF t = token THEN user_id ELSE sessions[t]]
\* history: the token was issued to the user
Issued(token, user_id) ==
  [t \in DOMAIN issuedTo \cup {token} |-> IF t = token THEN user_id ELSE issuedTo[t]]

\* main.py:57-67.  The new token is in no request yet, so storing it is folded into the
\* step of the commit.
register_user_commit(r) ==
  /\ req[r].pc = "register_user_commit"
  /\ IF UserInsertAllowed(req[r].username, req[r].email)
     THEN /\ users' = users \cup {UserRow(NextId(users), req[r].username, req[r].email, Hash(req[r].password))}
          /\ tokens' = tokens + 1
          /\ sessions' = SessionCreate(tokens + 1, NextId(users))
          /\ issuedTo' = Issued(tokens + 1, NextId(users))
          /\ Respond(r, [req[r] EXCEPT !.set_cookie = tokens + 1, !.current_user = NextId(users)], Redirect("/"))
     ELSE /\ UNCHANGED <<users, sessions, tokens, issuedTo>>
          /\ Respond(r, req[r], Unhandled("IntegrityError"))
  /\ UNCHANGED <<products, ratings, files, images, revoked>>

\* ---------------------------------------------------------------- login_user
request_login_user(r) ==
  /\ tokens + PendingTokens < MaxTokens
  /\ \E u \in Usernames, p \in Passwords :
       Arrive(r, [Idle EXCEPT !.pc = "login_user", !.op = "login_user", !.username = u, !.password = p])

\* main.py:75-83.  Rows of users never change, and the new token is in no request yet:
\* the query and the store into sessions are one step.
login_user(r) ==
  /\ req[r].pc = "login_user"
  /\ LET found == {u \in users : u.username = req[r].username} IN
       IF found = {} \/ \A u \in found : ~Verify(req[r].password, u.hashed_password)
       THEN /\ UNCHANGED <<sessions, tokens, issuedTo>>
            /\ Respond(r, req[r], Template("login.html"))
       ELSE LET user == CHOOSE u \in found : Verify(req[r].password, u.hashed_password) IN
            /\ tokens' = tokens + 1
            /\ sessions' = SessionCreate(tokens + 1, user.id)
            /\ issuedTo' = Issued(tokens + 1, user.id)
            /\ Respond(r, [req[r] EXCEPT !.set_cookie = tokens + 1, !.current_user = user.id], Redirect("/"))
  /\ UNCHANGED <<users, products, ratings, files, images, revoked>>

\* ---------------------------------------------------------------- logout
request_logout(r) ==
  \E c \in Cookies : Arrive(r, [Idle EXCEPT !.pc = "logout", !.op = "logout", !.cookie = c])

\* a logout that drops every session
SessionRevoke_All(token) == << >>

\* del sessions[session_token]
SessionRevoke(token) == [t \in DOMAIN sessions \ {token} |-> sessions[t]]

\* main.py:87-88  `session_token and session_token in sessions`; 90-92 when it is false
logout(r) ==
  /\ req[r].pc = "logout"
  /\ IF req[r].cookie # NoCookie /\ req[r].cookie \in DOMAIN sessions
     THEN Goto(r, [req[r] EXCEPT !.pc = "logout_del"]) /\ revoked' = revoked
     ELSE Respond(r, req[r], Redirect("/")) /\ revoked' = revoked \cup ({req[r].cookie} \cap (1..tokens))
  /\ UNCHANGED <<sessions, users, products, ratings, files, tokens, images, issuedTo>>

\* main.py:89-92
logout_del(r) ==
  /\ req[r].pc = "logout_del"
  /\ IF req[r].cookie \in DOMAIN sessions
     THEN /\ sessions' = SessionRevoke(req[r].cookie)
          /\ revoked' = revoked \cup {req[r].cookie}
          /\ Respond(r, req[r], Redirect("/"))
     ELSE /\ UNCHANGED <<sessions, revoked>>
          /\ Respond(r, req[r], Unhandled("KeyError"))
  /\ UNCHANGED <<users, products, ratings, files, tokens, images, issuedTo>>

\* ---------------------------------------------------------------- add_product
\* add_product and edit_product are `async def` and never await after their parameters
\* are resolved: the event loop runs the body of one of them to its end before it starts
\* the body of another, while the sync handlers go on in the thread pool.
InAsyncBody(r) ==
  req[r].pc \in {"add_product_commit", "edit_product_exists", "edit_product_remove",
                 "edit_product_write", "edit_product_commit"}
EventLoopFree(r) == \A s \in Reqs \ {r} : ~InAsyncBody(s)

request_add_product(r) ==
  /\ NextId(products) + PendingProducts <= MaxProducts
  /\ \E c \in Cookies, f \in Forms, img \in BOOLEAN :
       /\ img => images + PendingImages < MaxImages
       /\ Arrive(r, [Idle EXCEPT !.pc = "get_current_user", !.op = "add_product", !.cookie = c,
                                 !.form = f, !.image = img])

\* main.py:128-146  (os.makedirs of static/images is not modelled: the directory is never removed)
add_product(r) ==
  /\ req[r].pc = "add_product"
  /\ EventLoopFree(r)
  /\ IF req[r].current_user = None
     THEN Respond(r, req[r], Redirect("/login")) /\ UNCHANGED <<files, images>>
     ELSE IF ~req[r].image
     THEN Respond(r, req[r], Template("add_product.html")) /\ UNCHANGED <<files, images>>
     ELSE /\ images' = images + 1
          /\ files' = files \cup {images + 1}
          /\ Goto(r, [req[r] EXCEPT !.pc = "add_product_commit", !.new_image = images + 1])
  /\ UNCHANGED <<sessions, users, products, ratings, tokens, issuedTo, revoked>>

\* main.py:148-156
add_product_commit(r) ==
  /\ req[r].pc = "add_product_commit"
  /\ products' = products \cup
       {ProductRow(NextId(products), req[r].form, req[r].new_image, req[r].current_user)}
  /\ Respond(r, [req[r] EXCEPT !.pid = NextId(products)], Redirect("/"))
  /\ UNCHANGED <<sessions, users, ratings, files, tokens, images, issuedTo, revoked>>

\* ---------------------------------------------------------------- edit_product
request_edit_product(r) ==
  \E c \in Cookies, id \in ProductIds, f \in Forms, img \in BOOLEAN :
    /\ img => images + PendingImages < MaxImages
    /\ Arrive(r, [Idle EXCEPT !.pc = "get_current_user", !.op = "edit_product", !.cookie = c,
                              !.pid = id, !.form = f, !.image = img])

\* main.py:212-228  the ownership query; the assignments of 223-226 stay in the request
\* until the commit
edit_product(r) ==
  /\ req[r].pc = "edit_product"
  /\ EventLoopFree(r)
  /\ IF req[r].current_user = None THEN Respond(r, req[r], Redirect("/login"))
     ELSE IF OwnedProduct(req[r].pid, req[r].current_user) = NoProduct
     THEN Respond(r, req[r], HTTPException(404))
     ELSE Goto(r, [req[r] EXCEPT !.product = OwnedProduct(req[r].pid, req[r].current_user),
                                 !.pc = IF req[r].image THEN "edit_product_exists"
                                                        ELSE "edit_product_commit"])
  /\ UNCHANGED <<sessions, users, products, ratings, files, tokens, images, issuedTo, revoked>>

\* main.py:229-230  os.path.exists(old_image_path)
edit_product_exists(r) ==
  /\ req[r].pc = "edit_product_exists"
  /\ Goto(r, [req[r] EXCEPT !.pc = IF req[r].product.image \in files THEN "edit_product_remove"
                                                                     ELSE "edit_product_write"])
  /\ UNCHANGED <<sessions, users, products, ratings, files, tokens, images, issuedTo, revoked>>

\* main.py:231  os.remove(old_image_path)
edit_product_remove(r) ==
  /\ req[r].pc = "edit_product_remove"
  /\ IF req[r].product.image \in files
     THEN files' = files \ {req[r].product.image} /\ Goto(r, [req[r] EXCEPT !.pc = "edit_product_write"])
     ELSE files' = files /\ Respond(r, req[r], Unhandled("FileNotFoundError"))
  /\ UNCHANGED <<sessions, users, products, ratings, tokens, images, issuedTo, revoked>>

\* main.py:233-239
edit_product_write(r) ==
  /\ req[r].pc = "edit_product_write"
  /\ images' = images + 1
  /\ files' = files \cup {images + 1}
  /\ Goto(r, [req[r] EXCEPT !.pc = "edit_product_commit", !.new_image = images + 1])
  /\ UNCHANGED <<sessions, users, products, ratings, tokens, issuedTo, revoked>>

\* the UPDATE of db.commit(): it sets the attributes whose assigned value differs from the
\* value the request loaded, in the row of the product's id
Assigned_KeepsImage(loaded, form, new_image) ==
  [id |-> loaded.id, name |-> form.name, description |-> form.description, price |-> form.price,
   stock |-> form.stock, image |-> loaded.image, owner_id |-> loaded.owner_id]
Assigned(loaded, form, new_image) ==
  [id |-> loaded.id, name |-> form.name, description |-> form.description, price |-> form.price,
   stock |-> form.stock, image |-> IF new_image = None THEN loaded.image ELSE new_image,
   owner_id |-> loaded.owner_id]
Updated(row, loaded, assigned) ==
  [a \in DOMAIN row |-> IF assigned[a] # loaded[a] THEN assigned[a] ELSE row[a]]

\* main.py:241-244  db.commit(); db.refresh(product)
edit_product_commit(r) ==
  /\ req[r].pc = "edit_product_commit"
  /\ LET loaded == req[r].product
         assigned == Assigned(loaded, req[r].form, req[r].new_image)
         row == ProductById(loaded.id)
     IN IF row = NoProduct
        THEN /\ products' = products
             /\ Respond(r, req[r], Unhandled(IF assigned # loaded THEN "StaleDataError"
                                                                 ELSE "InvalidRequestError"))
        ELSE /\ products' = (products \ {row}) \cup {Updated(row, loaded, assigned)}
             /\ Respond(r, req[r], Redirect("/product"))
  /\ UNCHANGED <<sessions, users, ratings, files, tokens, images, issuedTo, revoked>>

\* ---------------------------------------------------------------- delete_product
request_delete_product(r) ==
  \E c \in Cookies, id \in ProductIds :
    Arrive(r, [Idle EXCEPT !.pc = "get_current_user", !.op = "delete_product", !.cookie = c, !.pid = id])

\* main.py:249-260
delete_product(r) ==
  /\ req[r].pc = "delete_product"
  /\ IF req[r].current_user = None THEN Respond(r, req[r], Redirect("/login"))
     ELSE IF OwnedProduct(req[r].pid, req[r].current_user) = NoProduct
     THEN Respond(r, req[r], HTTPException(404))
     ELSE Goto(r, [req[r] EXCEPT !.product = OwnedProduct(req[r].pid, req[r].current_user),
                                 !.pc = "delete_product_exists"])
  /\ UNCHANGED <<sessions, users, products, ratings, files, tokens, images, issuedTo, revoked>>

\* main.py:261  os.path.exists(image_path)
delete_product_exists(r) ==
  /\ req[r].pc = "delete_product_exists"
  /\ Goto(r, [req[r] EXCEPT !.pc = IF req[r].product.image \in files THEN "delete_product_remove"
                                                                     ELSE "delete_product_commit"])
  /\ UNCHANGED <<sessions, users, products, ratings, files, tokens, images, issuedTo, revoked>>

\* main.py:262  os.remove(image_path)
delete_product_remove(r) ==
  /\ req[r].pc = "delete_product_remove"
  /\ IF req[r].product.image \in files
     THEN files' = files \ {req[r].product.image} /\ Goto(r, [req[r] EXCEPT !.pc = "delete_product_commit"])
     ELSE files' = files /\ Respond(r, req[r], Unhandled("FileNotFoundError"))
  /\ UNCHANGED <<sessions, users, products, ratings, tokens, images, issuedTo, revoked>>

\* models.py:29 and 37: Product.ratings has no delete cascade, so the flush of db.delete
\* sets product_id of the product's ratings to NULL, which nullable=False refuses.
\* a DELETE that nothing refuses
DeleteAllowed_Always(product_id) == TRUE
DeleteAllowed(product_id) == ~\E x \in ratings : x.product_id = product_id

\* main.py:264-267  db.delete(product); db.commit()
delete_product_commit(r) ==
  /\ req[r].pc = "delete_product_commit"
  /\ IF DeleteAllowed(req[r].product.id)
     THEN /\ products' = {p \in products : p.id # req[r].product.id}
          /\ Respond(r, req[r], Redirect("/"))
     ELSE /\ products' = products
          /\ Respond(r, req[r], Unhandled("IntegrityError"))
  /\ UNCHANGED <<sessions, users, ratings, files, tokens, images, issuedTo, revoked>>

\* ---------------------------------------------------------------- read_products
request_read_products(r) ==
  \E c \in Cookies :
    Arrive(r, [Idle EXCEPT !.pc = "get_current_user", !.op = "read_products", !.cookie = c])

\* db.query(models.Product).all(): a scan of the table, which SQLite reads in rowid order
RECURSIVE Scan(_)
Scan(table) ==
  IF table = {} THEN << >>
  ELSE LET first == CHOOSE row \in table : \A other \in table : row.id <= other.id
       IN  <<first>> \o Scan(table \ {first})

\* an ascending sort that is reversed afterwards: x goes before the elements equal to it
insort_BeforeEqual(sorted, x) ==
  LET k == Cardinality({i \in 1..Len(sorted) : sorted[i][2] > x[2]})
  IN  SubSeq(sorted, 1, k) \o <<x>> \o SubSeq(sorted, k + 1, Len(sorted))

\* one element more in a list sorted by x[1] with reverse=True: the sort is stable, x goes
\* after the elements that are not smaller
insort(sorted, x) ==
  LET k == Cardinality({i \in 1..Len(sorted) : sorted[i][2] >= x[2]})
  IN  SubSeq(sorted, 1, k) \o <<x>> \o SubSeq(sorted, k + 1, Len(sorted))

\* main.py:103  products_with_ratings.sort(key=lambda x: x[1], reverse=True)
RECURSIVE sort(_)
sort(list) ==
  IF list = << >> THEN << >>
  ELSE insort(sort(SubSeq(list, 1, Len(list) - 1)), list[Len(list)])

\* main.py:97-101: the pairs (product, rating_count), the product given by its id
products_with_ratings(scan) == [i \in 1..Len(scan) |-> <<scan[i].id, RatingCount(scan[i].id)>>]

\* main.py:94-109
read_products(r) ==
  /\ req[r].pc = "read_products"
  /\ Respond(r, [req[r] EXCEPT !.listing = sort(products_with_ratings(Scan(products)))],
             Template("index.html"))
  /\ UNCHANGED <<sessions, users, products, ratings, files, tokens, images, issuedTo, revoked>>

\* ---------------------------------------------------------------- specifications
Register(r) == request_register_user(r) \/ register_user(r) \/ register_user_commit(r)
Login(r) == request_login_user(r) \/ login_user(r)
Logout(r) == request_logout(r) \/ logout(r) \/ logout_del(r)
Resolve(r) == get_current_user_test(r) \/ get_current_user_read(r)
Add(r) == request_add_product(r) \/ add_product(r) \/ add_product_commit(r)
Edit(r) ==
  \/ request_edit_product(r) \/ edit_product(r) \/ edit_product_exists(r)
  \/ edit_product_remove(r) \/ edit_product_write(r) \/ edit_product_commit(r)
Delete(r) ==
  \/ request_delete_product(r) \/ delete_product(r) \/ delete_product_exists(r)
  \/ delete_product_remove(r) \/ delete_product_commit(r)
Rate(r) ==
  \/ request_rate_product(r) \/ rate_product(r) \/ rate_product_existing(r)
  \/ rate_product_commit(r)

Handle(r) ==
  Register(r) \/ Login(r) \/ Logout(r) \/ Resolve(r) \/ Add(r) \/ Edit(r) \/ Delete(r) \/ Rate(r)

\* every request is handled concurrently with every other
Next == \E r \in Reqs : Handle(r)
Spec == Init /\ [][Next]_vars

\* requests are handled one after the other
SeqNext == \E r \in Reqs : Solo(r) /\ Handle(r)
SeqSpec == Init /\ [][SeqNext]_vars

\* the session requests, handled concurrently
AuthNext == \E r \in Reqs : Register(r) \/ Login(r) \/ Logout(r)
AuthSpec == Init /\ [][AuthNext]_vars

\* the session requests, handled one after the other
SeqAuthNext == \E r \in Reqs : Solo(r) /\ (Register(r) \/ Login(r) \/ Logout(r))
SeqAuthSpec == Init /\ [][SeqAuthNext]_vars

\* rate_product and delete_product requests handled concurrently, between requests that
\* are handled alone: the registrations (whose users stay logged in), add_product and
\* edit_product
AloneOps == {"register_user", "add_product", "edit_product"}
OtherAlone(r) == \E s \in Reqs \ {r} : req[s].op \in AloneOps
ShopNext ==
  \E r \in Reqs :
    \/ Solo(r) /\ (Register(r) \/ Add(r) \/ Edit(r))
    \/ ~OtherAlone(r) /\ (Resolve(r) \/ Delete(r) \/ Rate(r))
ShopSpec == Init /\ [][ShopNext]_vars

\* read_products requests on a catalog of up to NumListed products of user 1, each rated
\* by any of the two users; user 1 is logged in.  No request changes the tables.
Listed == 1..NumListed
Raters == {1, 2}
RatingIdOf(pairs, pair) ==
  Cardinality({other \in pairs : \/ other[2] < pair[2]
                                 \/ other[2] = pair[2] /\ other[1] <= pair[1]})
RankInit ==
  /\ users = {UserRow(1, "ana", "ana@x", Hash(RegisterPassword)),
              UserRow(2, "beto", "beto@x", Hash(RegisterPassword))}
  /\ sessions = [token \in {1} |-> 1]
  /\ issuedTo = [token \in {1} |-> 1]
  /\ revoked = {}
  /\ tokens = 1
  /\ images = NumListed
  /\ \E ids \in SUBSET Listed :
       /\ products = {ProductRow(id, CHOOSE form \in Forms : form.price >= 0, id, 1) : id \in ids}
       /\ files = ids
       /\ \E pairs \in SUBSET (Raters \X ids) :
            ratings = {RatingRow(RatingIdOf(pairs, pair), pair[1], pair[2]) : pair \in pairs}
  /\ req = [r \in Reqs |-> Idle]
  /\ last = NoRequest
List(r) == request_read_products(r) \/ read_products(r)
RankNext == \E r \in Reqs : Resolve(r) \/ List(r)
RankSpec == RankInit /\ [][RankNext]_vars

\* ---------------------------------------------------------------- properties
\* request r is answered by this step
Answers(r) == InFlight(r) /\ req'[r].pc = "idle"
\* user u has rated product p; the number of ratings of p
RatedIn(rows, u, p) == \E x \in rows : x.user_id = u /\ x.product_id = p
Rated(u, p) == RatedIn(ratings, u, p)
CountIn(rows, p) == Cardinality({x \in rows : x.product_id = p})
CountFor(p) == CountIn(ratings, p)
Exists(p) == \E q \in products : q.id = p
AlreadyRated == HTTPException(400)

\* C1: whatever the interleaving of concurrent rate_product requests, the ratings table
\* never holds two rows for the same (user, product) pair.
C1_OneRatingPerPair ==
  \A x, y \in ratings : (x.user_id = y.user_id /\ x.product_id = y.product_id) => x = y

\* C1 witness: a request that passed the pre-check has had its insert refused, the pair's
\* row being the one a concurrent request inserted in between.
C1_Witness ==
  /\ last.op = "rate_product" /\ last.pc = "rate_product_commit"
  /\ last.response = Unhandled("IntegrityError")
  /\ Cardinality({x \in ratings : x.user_id = last.current_user /\ x.product_id = last.pid}) = 1

\* C2: for an authenticated user U and an existing product P, a rate request is answered
\* with success when U has not rated P, and then U has rated P and P counts one rating
\* more; it is answered AlreadyRated when U has rated P (the second of two calls in
\* sequence), and then P's count is unchanged: two calls in sequence add exactly one.
C2_RateTwice ==
  [][\A r \in Reqs :
       (/\ req[r].op = "rate_product" /\ Answers(r)
        /\ req[r].current_user # None /\ Exists(req[r].pid))
       => IF Rated(req[r].current_user, req[r].pid)
          THEN /\ last'.response = AlreadyRated
               /\ CountIn(ratings', req[r].pid) = CountFor(req[r].pid)
          ELSE /\ last'.response = Redirect("/product")
               /\ RatedIn(ratings', req[r].current_user, req[r].pid)
               /\ CountIn(ratings', req[r].pid) = CountFor(req[r].pid) + 1]_vars

\* C2 witness: the second call has been answered AlreadyRated and the product counts the
\* one rating of the first call.
C2_Witness ==
  /\ last.op = "rate_product" /\ last.response = AlreadyRated
  /\ Rated(last.current_user, last.pid) /\ CountFor(last.pid) = 1

\* C3: a rate request whose insert is refused by the uniqueness constraint is answered
\* AlreadyRated, as when the pre-check finds the rating.
C3_RefusedInsertIsAlreadyRated ==
  [][\A r \in Reqs :
       (/\ req[r].pc = "rate_product_commit" /\ Answers(r)
        /\ Rated(req[r].current_user, req[r].pid))
       => last'.response = AlreadyRated]_vars

\* the answer of edit_product and delete_product to "not found or no permission"
NotFoundOrNoPermission == HTTPException(404)
Owns(u, p) == \E q \in products : q.id = p /\ q.owner_id = u
\* a step of request r
StepOf(r) == req'[r] # req[r]
Unmutated == UNCHANGED <<products, ratings, files>>

\* C4 (as claimed): an edit_product or delete_product request of anyone but the product's
\* owner, anonymous included, whether or not the product exists, is answered
\* "not found or no permission" and changes no product, rating or asset.
C4_NonOwnerMerged ==
  [][\A r \in Reqs :
       (req[r].op \in {"edit_product", "delete_product"} /\ StepOf(r))
       => /\ req[r].pc \in {"get_current_user", "get_current_user_read"} => Unmutated
          /\ (req[r].pc = req[r].op /\ ~Owns(req[r].current_user, req[r].pid))
             => Unmutated /\ Answers(r) /\ last'.response = NotFoundOrNoPermission]_vars

\* C4 (amended): such a request of another user is answered "not found or no
\* permission" and one of an anonymous requester is redirected to the login page, each
\* whether or not the product exists, and neither changes a product, rating or asset.
C4_NonOwnerRefused ==
  [][\A r \in Reqs :
       (req[r].op \in {"edit_product", "delete_product"} /\ StepOf(r))
       => /\ req[r].pc \in {"get_current_user", "get_current_user_read"} => Unmutated
          /\ (req[r].pc = req[r].op /\ ~Owns(req[r].current_user, req[r].pid))
             => /\ Unmutated /\ Answers(r)
                /\ last'.response = IF req[r].current_user = None THEN Redirect("/login")
                                                                  ELSE NotFoundOrNoPermission]_vars

\* C4 witness: another user's request on an existing product has been refused.
C4_Witness ==
  /\ last.op \in {"edit_product", "delete_product"} /\ last.response = NotFoundOrNoPermission
  /\ last.current_user # None
  /\ \E q \in products : q.id = last.pid /\ q.owner_id # last.current_user

\* C5: a delete_product request of the product's owner succeeds whatever the number of
\* ratings of the product, and then the product is in no row of products, no rating
\* references it and its image file is gone.
C5_OwnerDeleteCascades ==
  [][\A r \in Reqs :
       (req[r].op = "delete_product" /\ req[r].product # NoProduct /\ Answers(r))
       => /\ last'.response = Redirect("/")
          /\ ~\E q \in products' : q.id = req[r].pid
          /\ ~\E x \in ratings' : x.product_id = req[r].pid
          /\ req[r].product.image \notin files']_vars

\* C6: when no request is being handled, the image of every product is a file of the
\* image directory.
C6_ImagesExist ==
  (\A r \in Reqs : Free(r)) => \A q \in products : q.image \in files

Conflict == Template("register.html")
\* the user a token resolves to in the registry and users table given
ResolvesIn(registry, rows, token) ==
  IF token \in DOMAIN registry /\ \E u \in rows : u.id = registry[token]
  THEN registry[token] ELSE None

\* C7: a register_user request whose username or email is taken is answered Conflict
\* and creates no user and no session; one whose username and email are both unused
\* creates exactly one user, with them, and returns a token that resolves to that user.
C7_RegisterConflictOrSession ==
  [][\A r \in Reqs :
       (req[r].op = "register_user" /\ Answers(r))
       => IF \E u \in users : u.username = req[r].username \/ u.email = req[r].email
          THEN last'.response = Conflict /\ UNCHANGED <<users, sessions>>
          ELSE \E new \in users' \ users :
                 /\ users' = users \cup {new}
                 /\ new.username = req[r].username /\ new.email = req[r].email
                 /\ last'.response = Redirect("/")
                 /\ last'.set_cookie \notin DOMAIN sessions
                 /\ ResolvesIn(sessions', users', last'.set_cookie) = new.id]_vars

\* C7 witness: a registration with a new username and a taken email has been answered
\* Conflict.
C7_Witness ==
  /\ last.op = "register_user" /\ last.response = Conflict
  /\ ~\E u \in users : u.username = last.username

\* C8: whatever the interleaving of concurrent register_user requests, no two users
\* share a username and no two share an email.
C8_UniqueUsers ==
  \A u, v \in users : (u.username = v.username \/ u.email = v.email) => u = v

\* C8 witness: a registration that passed the existing-user check has had its insert
\* refused, a concurrent one having taken the username or the email in between.
C8_Witness ==
  /\ last.op = "register_user" /\ last.pc = "register_user_commit"
  /\ last.response = Unhandled("IntegrityError")

\* C9: a token resolves to user U exactly when a successful registration or login of U
\* issued it and no logout carrying it has been answered since; no cookie and a token
\* never issued resolve to nobody; and a login or logout never changes what a token
\* other than its own resolves to.
C9_TokenLifecycle ==
  /\ [](\A t \in Cookies :
          CurrentUser(t) = IF t \in DOMAIN issuedTo /\ t \notin revoked THEN issuedTo[t] ELSE None)
  /\ [][\A r \in Reqs :
          (req[r].op \in {"login_user", "logout"} /\ StepOf(r))
          => \A t \in Cookies \ {req[r].cookie} :
               ResolvesIn(sessions', users', t) = ResolvesIn(sessions, users, t)]_vars

\* C9 witness: of two tokens issued to the same user, one has been revoked by a logout
\* and the other still resolves to the user.
C9_Witness ==
  \E t1 \in revoked, t2 \in DOMAIN sessions :
    /\ t1 \in DOMAIN issuedTo /\ issuedTo[t1] = sessions[t2]
    /\ last.op = "logout" /\ last.cookie = t1

\* C10: a logout request removes the mapping of its token and no other; with a token
\* that has no mapping (revoked, never issued, or no cookie) it changes nothing and is
\* answered without error; revoking the token again after the logout changes nothing.
C10_LogoutIdempotent ==
  [][\A r \in Reqs :
       (req[r].op = "logout" /\ StepOf(r))
       => IF Answers(r)
          THEN /\ sessions' = [t \in DOMAIN sessions \ {req[r].cookie} |-> sessions[t]]
               /\ req[r].cookie \notin DOMAIN sessions
                    => sessions' = sessions /\ last'.response = Redirect("/")
               /\ last'.response = Redirect("/")
               /\ \A token \in {req[r].cookie} : SessionRevoke(token)' = sessions'
          ELSE sessions' = sessions]_vars

\* C10 witness: a logout carrying a token that was issued and already revoked has been
\* answered.
C10_Witness ==
  /\ last.op = "logout" /\ last.pc = "logout" /\ last.response = Redirect("/")
  /\ last.cookie \in DOMAIN issuedTo

\* C11: whatever the interleaving of the requests that create, resolve and revoke
\* sessions, no request fails inside the registry: none is answered with the KeyError
\* of a read or delete of a token that a concurrent logout has removed.
C11_NoRegistryFailure == last.response # Unhandled("KeyError")

ValidationError == Template("add_product.html")
Valid(form, image) == form.price >= 0 /\ form.stock >= 0 /\ image

\* C12: an add_product request of an authenticated user with a negative price, a negative
\* stock or no image is answered ValidationError and inserts no product; with a price and
\* a stock that are not negative and an image it inserts exactly one product.
C12_AddValidates ==
  [][\A r \in Reqs :
       (req[r].op = "add_product" /\ req[r].current_user # None /\ Answers(r))
       => IF Valid(req[r].form, req[r].image)
          THEN \E new \in products' \ products : products' = products \cup {new}
          ELSE last'.response = ValidationError /\ products' = products]_vars

\* C13: the price and the stock of every product are never negative.
C13_NonNegative == \A q \in products : q.price >= 0 /\ q.stock >= 0

\* C14: the product that an add_product request of user U inserts has owner U; no
\* product id is in two rows (so in the owned set of two users); and no step changes the
\* owner of a product that it does not delete.
C14_OwnerImmutable ==
  /\ [](\A p, q \in products : p.id = q.id => p = q)
  /\ [][/\ \A r \in Reqs :
             (req[r].op = "add_product" /\ Answers(r))
             => \A new \in products' \ products : new.owner_id = req[r].current_user
        /\ \A p \in products, q \in products' : p.id = q.id => p.owner_id = q.owner_id]_vars

\* C14 witness: the owner has edited the product and it is still the owner's, another
\* user being registered.
C14_Witness ==
  /\ last.op = "edit_product" /\ last.response = Redirect("/product")
  /\ \E q \in products : q.id = last.pid /\ q.owner_id = last.current_user
  /\ Cardinality(users) = 2

\* C15: the listing of read_products holds every product exactly once, each with its
\* rating count, in descending order of the counts, and products with equal counts in the
\* order of the catalog scan (ascending id).  This fixes the listing as a function of the
\* tables, so repeated calls on unchanged tables return the same order.
C15_StableRanking ==
  last.op = "read_products" =>
    LET listing == last.listing
        At == 1..Len(listing)
    IN  /\ Len(listing) = Cardinality(products)
        /\ \A q \in products : \E i \in At : listing[i] = <<q.id, CountFor(q.id)>>
        /\ \A i, j \in At :
             i < j => \/ listing[i][2] > listing[j][2]
                      \/ listing[i][2] = listing[j][2] /\ listing[i][1] < listing[j][1]

\* C15 witness: a listing where the last product of the scan comes first and the two
\* products after it have equal counts.
C15_Witness ==
  /\ last.op = "read_products" /\ Len(last.listing) >= 3
  /\ last.listing[1][1] = NumListed
  /\ last.listing[2][2] = last.listing[3][2] /\ last.listing[2][2] > 0

Unauthenticated == HTTPException(401)
NotFound == HTTPException(404)

\* C16: a rate_product request of an anonymous requester is answered Unauthenticated,
\* whether or not the product exists; one of an authenticated user for a product that does
\* not exist is answered NotFound; a request answered Unauthenticated, NotFound or
\* AlreadyRated leaves the ratings unchanged; a successful one adds exactly one row, for
\* the requester and the product, and changes no other row.
C16_RateOutcomes ==
  [][\A r \in Reqs :
       (req[r].op = "rate_product" /\ Answers(r))
       => LET u == req[r].current_user
              p == req[r].pid
          IN  /\ u = None => last'.response = Unauthenticated
              /\ (u # None /\ ~Exists(p)) => last'.response = NotFound
              /\ last'.response \in {Unauthenticated, NotFound, AlreadyRated} => ratings' = ratings
              /\ last'.response = Redirect("/product")
                 => \E new \in ratings' \ ratings :
                      /\ ratings' = ratings \cup {new}
                      /\ new.user_id = u /\ new.product_id = p
              /\ UNCHANGED <<users, products, files, sessions>>]_vars

\* C16 witness: an anonymous requester has rated a product that does not exist and is
\* answered Unauthenticated, users being registered.
C16_Witness ==
  /\ last.op = "rate_product" /\ last.response = Unauthenticated
  /\ ~Exists(last.pid) /\ users # {}

InvalidCredentials == Template("login.html")

\* C17: a login_user request with a username that is not registered or with a password
\* other than the registered one is answered InvalidCredentials and leaves the registry
\* unchanged; any other adds exactly one token that was not in the registry, mapped to the
\* user of that name, and leaves every earlier token mapped as it was.
C17_LoginFrame ==
  [][\A r \in Reqs :
       (req[r].op = "login_user" /\ Answers(r))
       => IF \E u \in users : u.username = req[r].username /\ req[r].password = RegisterPassword
          THEN \E token \in DOMAIN sessions' \ DOMAIN sessions :
                 /\ DOMAIN sessions' = DOMAIN sessions \cup {token}
                 /\ \E u \in users : u.username = req[r].username /\ sessions'[token] = u.id
                 /\ \A t \in DOMAIN sessions : sessions'[t] = sessions[t]
                 /\ last'.set_cookie = token
          ELSE last'.response = InvalidCredentials /\ sessions' = sessions]_vars

\* C17 witness: a login has succeeded while an earlier token is still in the registry.
C17_Witness ==
  /\ last.op = "login_user" /\ last.response = Redirect("/")
  /\ last.set_cookie \in DOMAIN sessions
  /\ DOMAIN sessions \ {last.set_cookie} # {}

\* C18: an edit_product request of the owner with an image removes the old asset if it is
\* there, then writes the new asset, then sets the image reference to it; one without an
\* image leaves the image reference and the asset store unchanged.  Its commit changes the
\* name, description, price and stock (and image) of that product only, and no step of it
\* changes another product, a rating, a user or a session.
C18_EditFrame ==
  [][\A r \in Reqs :
       (req[r].op = "edit_product" /\ StepOf(r))
       => LET old == req[r].product.image
              form == req[r].form
          IN  /\ UNCHANGED <<users, sessions, ratings>>
              /\ req[r].pc = "edit_product_remove"
                 => old \in files /\ files' = files \ {old} /\ products' = products
              /\ req[r].pc = "edit_product_write"
                 => /\ old \notin files
                    /\ \E new \in files' \ files : files' = files \cup {new} /\ req'[r].new_image = new
                    /\ products' = products
              /\ req[r].pc = "edit_product_commit"
                 => /\ files' = files
                    /\ last'.response = Redirect("/product")
                    /\ req[r].image => old \notin files /\ req[r].new_image \in files
                    /\ \E row \in products :
                         /\ row.id = req[r].pid
                         /\ products' = (products \ {row}) \cup
                              {[row EXCEPT !.name = form.name, !.description = form.description,
                                           !.price = form.price, !.stock = form.stock,
                                           !.image = IF req[r].image THEN req[r].new_image ELSE row.image]}
              /\ req[r].pc \notin {"edit_product_remove", "edit_product_write", "edit_product_commit"}
                 => UNCHANGED <<products, files>>]_vars

\* C18 witness: an edit with an image has succeeded: the new asset is the only file and
\* the product references it.
C18_Witness ==
  /\ last.op = "edit_product" /\ last.response = Redirect("/product")
  /\ last.new_image # None
  /\ \E q \in products : q.id = last.pid /\ q.image = last.new_image /\ files = {q.image}

\* C19: whatever the interleaving of the add_product, edit_product and delete_product
\* requests of a product's owner, once every request is answered each file of the asset
\* store is the image of some product, and no request fails with the FileNotFoundError of
\* removing an asset that another request removed after the existence test.
C19_NoOrphanNoRace ==
  /\ (\A r \in Reqs : Free(r)) => \A f \in files : \E q \in products : q.image = f
  /\ last.response # Unhandled("FileNotFoundError")

====
